---- MODULE Spec2Model ----
(***************************************************************************)
(* Model of the two command-line tools of the snappy-swift test harness:   *)
(*   validate_snappy.cpp    - the fixture validator                        *)
(*   generate_test_data.cpp - the fixture generator                        *)
(*                                                                         *)
(* The snappy library itself is an external collaborator.  A byte string   *)
(* handed to it is represented by a "blob": a record carrying its size and *)
(* the answers the codec gives about it.                                   *)
(*                                                                         *)
(* Text (argv[2], std::to_string output) is a sequence of one-character    *)
(* strings.  size_t is SizeBits wide: the target has 64 bits, the model    *)
(* scales the width down so that wrap-around and out-of-range parses stay  *)
(* within the integers TLC can represent.                                  *)
(***************************************************************************)
EXTENDS Integers, Sequences, FiniteSets, TLC

VARIABLES
    \* ---- validate_snappy.cpp ----
    vpc,                \* position in the validator's main
    argc, argv,         \* argv[0..argc-1]: program, path, expected-size text
    filename,           \* std::string filename
    expectedSize,       \* size_t expectedSize
    compressed,         \* std::string compressed (a blob)
    uncompressedLength, \* size_t uncompressedLength
    decompressed,       \* decompressed.size()
    calls,              \* codec operations called so far, in order
    cout, cerr,         \* lines printed by the validator
    exitStatus,         \* value returned by the validator's main
    \* ---- generate_test_data.cpp ----
    gpc,                \* position in the generator's main / writeTestCase
    caseIdx,            \* which writeTestCase call of main is current (1..13)
    input,              \* writeTestCase's input: size, and bytes added by resize
    gcompressed,        \* writeTestCase's std::string compressed (a blob)
    file,               \* state of writeTestCase's std::ofstream
    gcout,              \* lines printed by the generator
    gexit,              \* value returned by the generator's main
    uncaught,           \* the call whose exception is leaving main, or "none"
    ioFaults,           \* failed file operations so far in this run
    \* ---- the file system both tools see ----
    fs

vvars == <<vpc, argc, argv, filename, expectedSize, compressed,
           uncompressedLength, decompressed, calls, cout, cerr, exitStatus>>

gvars == <<gpc, caseIdx, input, gcompressed, file, gcout, gexit,
           uncaught, ioFaults>>

vars == <<vvars, gvars, fs>>

-----------------------------------------------------------------------------
(* Bounds of the model *)

\* width of size_t in the model
SizeBits == 24

\* file operations the environment may fail in one generator run
MaxIoFaults == 1

\* the loops of main are evaluated in nested bursts of LoopStride, LoopLevels
\* deep, which keeps the evaluation of a long loop shallow
LoopStride == 10

LoopLevels == 4

-----------------------------------------------------------------------------
(* size_t and text *)

RECURSIVE Pow2(_)
Pow2(n) == IF n = 0 THEN 1 ELSE 2 * Pow2(n - 1)

\* SIZE_MAX + 1
SizeLimit == Pow2(SizeBits)

Digits == <<"0", "1", "2", "3", "4", "5", "6", "7", "8", "9">>

IsDigit(c) == \E d \in 1..10 : Digits[d] = c

\* DigitVal without the adjustment from index to value
DigitValOffByOne(c) == CHOOSE d \in 1..10 : Digits[d] = c

DigitVal(c) == (CHOOSE d \in 1..10 : Digits[d] = c) - 1

IsSpace(c) == c = " "

\* std::to_string(unsigned): decimal digits, most significant first
RECURSIVE ToDecimal(_)
ToDecimal(n) ==
    IF n < 10 THEN <<Digits[n + 1]>>
    ELSE Append(ToDecimal(n \div 10), Digits[(n % 10) + 1])

\* strtoull: index of the first character that is not white space
RECURSIVE SkipSpace(_, _)
SkipSpace(s, k) ==
    IF k <= Len(s) /\ IsSpace(s[k]) THEN SkipSpace(s, k + 1) ELSE k

\* strtoull: consume decimal digits from index k, detecting overflow
RECURSIVE ParseDigits(_, _, _, _)
ParseDigits(s, k, acc, ovf) ==
    IF k <= Len(s) /\ IsDigit(s[k])
    THEN LET d == DigitVal(s[k])
             over == ovf \/ acc * 10 + d >= SizeLimit
         IN ParseDigits(s, k + 1, IF over THEN acc ELSE acc * 10 + d, over)
    ELSE [next |-> k, value |-> acc, overflow |-> ovf]

\* the value strtoull gives a sign and a magnitude that is in range
Negate(neg, mag) == IF neg THEN (SizeLimit - mag) % SizeLimit ELSE mag

\* std::stoull(str): leading white space, optional sign, digits; the rest of
\* the text is ignored.  Throws std::invalid_argument when no digit was
\* consumed and std::out_of_range when the magnitude does not fit.
Stoull(s) ==
    LET start == SkipSpace(s, 1)
        signed == start <= Len(s) /\ s[start] \in {"-", "+"}
        neg == start <= Len(s) /\ s[start] = "-"
        first == IF signed THEN start + 1 ELSE start
        r == ParseDigits(s, first, 0, FALSE)
    IN IF r.next = first THEN [status |-> "invalid_argument", value |-> 0]
       ELSE IF r.overflow THEN [status |-> "out_of_range", value |-> 0]
       ELSE [status |-> "ok", value |-> Negate(neg, r.value)]

-----------------------------------------------------------------------------
(* Byte strings as seen through the codec *)

\* a file that does not exist or cannot be opened
NoFile == [id |-> "NoFile", size |-> 0, valid |-> FALSE, hasLength |-> FALSE,
           length |-> 0, decodes |-> FALSE, decodedSize |-> 0]

\* argv[1] of a validator run on an artifact of an independent encoder
ExtPath == "ext.snappy"

\* artifacts of an independent encoder: any size, any codec answers
ExtBlobs ==
    [id : {"ext"}, size : {0, 19}, valid : BOOLEAN, hasLength : BOOLEAN,
     length : {0, 99, 100, SizeLimit - 1}, decodes : BOOLEAN,
     decodedSize : {0, 99, 100}]

\* a line of console output
Line(msg, s, a, b) == [msg |-> msg, s |-> s, a |-> a, b |-> b]

\* (double)n / d as printed: finite quotient, or inf / nan for a zero divisor
Ratio(n, d) ==
    [num |-> n, den |-> d,
     value |-> IF d # 0 THEN "finite" ELSE IF n = 0 THEN "nan" ELSE "inf"]

-----------------------------------------------------------------------------
(* validate_snappy.cpp : main *)

VExit(code) == vpc' = "exited" /\ exitStatus' = code

\* lines 13-20: argument count, filename, std::stoull(argv[2])
VMain ==
    /\ vpc = "main"
    /\ IF argc # 3
       THEN /\ cerr' = cerr \o <<Line("Usage", "", 0, 0), Line("Example", "", 0, 0)>>
            /\ VExit(1)
            /\ UNCHANGED <<filename, expectedSize>>
       ELSE LET r == Stoull(argv[2])
            IN IF r.status = "ok"
               THEN /\ filename' = argv[1]
                    /\ expectedSize' = r.value
                    /\ vpc' = "open"
                    /\ UNCHANGED <<cerr, exitStatus>>
               ELSE \* the exception leaves main: std::terminate
                    /\ filename' = argv[1]
                    /\ vpc' = "terminated"
                    /\ cerr' = Append(cerr, Line("terminate", r.status, 0, 0))
                    /\ UNCHANGED <<expectedSize, exitStatus>>
    /\ UNCHANGED <<argc, argv, compressed, uncompressedLength, decompressed,
                   calls, cout, fs, gvars>>

\* the content std::ifstream finds at a path
ReadFile(path) == IF path \in DOMAIN fs THEN fs[path] ELSE NoFile

\* lines 23-36: open and read the whole file
VOpen ==
    /\ vpc = "open"
    /\ IF ReadFile(filename) = NoFile
       THEN /\ cerr' = Append(cerr, Line("ERROR: Cannot open file", filename, 0, 0))
            /\ VExit(1)
            /\ UNCHANGED <<compressed, cout>>
       ELSE /\ compressed' = ReadFile(filename)
            /\ cout' = cout \o <<Line("File", filename, 0, 0),
                                 Line("Compressed size", "", ReadFile(filename).size, 0)>>
            /\ vpc' = "validate"
            /\ UNCHANGED <<cerr, exitStatus>>
    /\ UNCHANGED <<argc, argv, filename, expectedSize, uncompressedLength,
                   decompressed, calls, fs, gvars>>

\* Gate with the early return missing
GateOpen(passed, next) == next

\* where main goes after a codec call or a comparison that gates a stage
Gate(passed, next) == IF passed THEN next ELSE "exited"

\* lines 39-43: snappy::IsValidCompressedBuffer
VValidate ==
    /\ vpc = "validate"
    /\ calls' = Append(calls, "IsValidCompressedBuffer")
    /\ vpc' = Gate(compressed.valid, "getlength")
    /\ IF compressed.valid
       THEN /\ cout' = Append(cout, Line("Format validation passed", "", 0, 0))
            /\ UNCHANGED <<cerr, exitStatus>>
       ELSE /\ cerr' = Append(cerr, Line("ERROR: Invalid compressed data format", "", 0, 0))
            /\ exitStatus' = 1
            /\ UNCHANGED cout
    /\ UNCHANGED <<argc, argv, filename, expectedSize, compressed,
                   uncompressedLength, decompressed, fs, gvars>>

\* lines 46-51: snappy::GetUncompressedLength
VGetLength ==
    /\ vpc = "getlength"
    /\ calls' = Append(calls, "GetUncompressedLength")
    /\ vpc' = Gate(compressed.hasLength, "checksize")
    /\ IF compressed.hasLength
       THEN /\ uncompressedLength' = compressed.length
            /\ cout' = Append(cout, Line("Uncompressed length", "", compressed.length, 0))
            /\ UNCHANGED <<cerr, exitStatus>>
       ELSE /\ cerr' = Append(cerr, Line("ERROR: Cannot get uncompressed length", "", 0, 0))
            /\ exitStatus' = 1
            /\ UNCHANGED <<cout, uncompressedLength>>
    /\ UNCHANGED <<argc, argv, filename, expectedSize, compressed,
                   decompressed, fs, gvars>>

\* LengthMismatch with the comparison missing
LengthNeverMismatch(len, expected) == FALSE

\* line 54: uncompressedLength != expectedSize
LengthMismatch(len, expected) == len # expected

\* lines 54-59: declared length against the expected size
VCheckSize ==
    /\ vpc = "checksize"
    /\ vpc' = Gate(~LengthMismatch(uncompressedLength, expectedSize), "uncompress")
    /\ IF LengthMismatch(uncompressedLength, expectedSize)
       THEN /\ cerr' = Append(cerr, Line("ERROR: Size mismatch!", "",
                                         expectedSize, uncompressedLength))
            /\ exitStatus' = 1
            /\ UNCHANGED cout
       ELSE /\ cout' = Append(cout, Line("Size matches expected", "", expectedSize, 0))
            /\ UNCHANGED <<cerr, exitStatus>>
    /\ UNCHANGED <<argc, argv, filename, expectedSize, compressed,
                   uncompressedLength, decompressed, calls, fs, gvars>>

\* lines 62-67: snappy::Uncompress
VUncompress ==
    /\ vpc = "uncompress"
    /\ calls' = Append(calls, "Uncompress")
    /\ vpc' = Gate(compressed.decodes, "finalcheck")
    /\ IF compressed.decodes
       THEN /\ decompressed' = compressed.decodedSize
            /\ cout' = Append(cout, Line("Decompression successful", "", 0, 0))
            /\ UNCHANGED <<cerr, exitStatus>>
       ELSE /\ cerr' = Append(cerr, Line("ERROR: Decompression failed", "", 0, 0))
            /\ exitStatus' = 1
            /\ UNCHANGED <<cout, decompressed>>
    /\ UNCHANGED <<argc, argv, filename, expectedSize, compressed,
                   uncompressedLength, fs, gvars>>

\* DecompressedMismatch with the comparison missing
DecompressedNeverMismatch(size, expected) == FALSE

\* line 70: decompressed.size() != expectedSize
DecompressedMismatch(size, expected) == size # expected

\* lines 70-81: final size check, ratio, overall-success marker
VFinalCheck ==
    /\ vpc = "finalcheck"
    /\ IF DecompressedMismatch(decompressed, expectedSize)
       THEN /\ cerr' = Append(cerr, Line("ERROR: Decompressed size mismatch!", "",
                                         expectedSize, decompressed))
            /\ VExit(1)
            /\ UNCHANGED cout
       ELSE /\ cout' = cout \o
                <<[msg |-> "Compression ratio", s |-> Ratio(decompressed, compressed.size).value,
                   a |-> decompressed, b |-> compressed.size],
                  Line("ALL CHECKS PASSED", "", 0, 0)>>
            /\ VExit(0)
            /\ UNCHANGED cerr
    /\ UNCHANGED <<argc, argv, filename, expectedSize, compressed,
                   uncompressedLength, decompressed, calls, fs, gvars>>

VNext ==
    \/ VMain
    \/ VOpen
    \/ VValidate
    \/ VGetLength
    \/ VCheckSize
    \/ VUncompress
    \/ VFinalCheck

-----------------------------------------------------------------------------
(* generate_test_data.cpp : the corpus built by main *)

\* CaseNames with the name of one call copied from the call before it
CaseNamesCopied ==
    <<"empty", "single_byte", "hello", "repeated", "pattern", "longer_text",
      "ascii", "large", "mixed", "numbers", "large_100kb", "large_100kb",
      "large_10mb">>

\* the first argument of the writeTestCase calls of main, in program order
CaseNames ==
    <<"empty", "single_byte", "hello", "repeated", "pattern", "longer_text",
      "ascii", "large", "mixed", "numbers", "large_100kb", "large_1mb",
      "large_10mb">>

NumCases == Len(CaseNames)

\* the cases whose input is appended to in a loop
IsLoopCase(c) == c \in {5, 7, 10, 11, 12, 13}

\* size of the inputs given as a literal or as std::string(n, ch)
LiteralSize(c) ==
    CASE c = 1 -> Len("")
      [] c = 2 -> Len("A")
      [] c = 3 -> Len("Hello, World!")
      [] c = 4 -> 100
      [] c = 6 -> Len("The quick brown fox jumps over the lazy dog. "
                      \o "The quick brown fox jumps over the lazy dog. "
                      \o "The quick brown fox jumps over the lazy dog. "
                      \o "The quick brown fox jumps over the lazy dog.")
      [] c = 8 -> 10000
      [] c = 9 -> Len("AAAAAAAbbbbbCCCCCdddEEFF1234567890")

\* initial value of the loop variable
LoopFirst(c) == IF c = 7 THEN 32 ELSE 0

\* the loop condition, with loop variable k and the string's current size
LoopContinues(c, k, size) ==
    CASE c = 5 -> k < 20
      [] c = 7 -> k < 127
      [] c = 10 -> k < 100
      [] c = 11 -> size < 100000
      [] c = 12 -> k < 10000
      [] c = 13 -> k < 10485760 \div 100

\* number of bytes one iteration of the loop body appends
Piece(c, k) ==
    CASE c = 5 -> Len("abcdefgh")
      [] c = 7 -> 1
      [] c = 10 -> Len(ToDecimal(k)) + Len(" ")
      [] c = 11 -> Len("The quick brown fox jumps over the lazy dog. ")
      [] c = 12 -> Len("Line ") + Len(ToDecimal(k))
                   + Len(": Lorem ipsum dolor sit amet, consectetur adipiscing elit. ")
                   + (IF k % 10 = 0 THEN 50 ELSE 0)
      [] c = 13 -> 100

\* the loop variable after one iteration (the while loop of case 11 has none)
NextIndex(c, k) == IF c = 11 THEN k ELSE k + 1

\* one evaluation of the loop condition and, if it holds, of the loop body
Step(c, st) ==
    IF LoopContinues(c, st.i, st.size)
    THEN [i |-> NextIndex(c, st.i), size |-> st.size + Piece(c, st.i)]
    ELSE st

\* n bursts in a row, or fewer if the loop ends; a burst of level 0 is one
\* Step, a burst of a higher level is LoopStride bursts of the level below
RECURSIVE Burst(_, _, _, _)
Burst(c, st, level, n) ==
    IF n = 0 \/ ~LoopContinues(c, st.i, st.size) THEN st
    ELSE Burst(c, IF level = 0 THEN Step(c, st)
                  ELSE Burst(c, st, level - 1, LoopStride),
               level, n - 1)

\* std::string::resize(n) on a string of the given size: cuts it, or
\* extends it with n - size bytes of value 0
Resize(size, n) == [size |-> n, pad |-> IF n > size THEN n - size ELSE 0]

\* the string passed to writeTestCase once the loop of case c is over
Finished(c, size) ==
    CASE c = 11 -> Resize(size, 100000)
      [] c = 12 -> Resize(size, 1048576)
      [] OTHER -> [size |-> size, pad |-> 0]

\* the loop of case c run from its start until its condition fails
RECURSIVE RunLoop(_, _)
RunLoop(c, st) ==
    IF ~LoopContinues(c, st.i, st.size) THEN st
    ELSE RunLoop(c, Burst(c, st, LoopLevels, 1))

\* the string main passes to each writeTestCase call
Inputs ==
    [c \in 1..NumCases |->
        IF IsLoopCase(c)
        THEN Finished(c, RunLoop(c, [i |-> LoopFirst(c), size |-> 0]).size)
        ELSE [size |-> LiteralSize(c), pad |-> 0]]

\* "Tests/SnappySwiftTests/TestData/" + name + ".snappy"
Path(name) == "Tests/SnappySwiftTests/TestData/" \o name \o ".snappy"

FixturePaths == {Path(CaseNames[c]) : c \in 1..NumCases}

-----------------------------------------------------------------------------
(* The reference codec as the generator sees it *)

\* snappy::MaxCompressedLength, taken as the size of a non-empty output
MaxCompressedLength(n) == 32 + n + n \div 6

\* sizes snappy::Compress may give its output: an empty input may come out
\* as a bare header or, with a header-less framing, as nothing at all
CompressedSizes(n) == IF n = 0 THEN {0, 1} ELSE {MaxCompressedLength(n)}

\* the output of snappy::Compress for the input of the named case: the
\* codec accepts it, declares the input's length and decodes it to the input
Compressed(name, n, csize) ==
    [id |-> name, size |-> csize, valid |-> TRUE, hasLength |-> TRUE,
     length |-> n % SizeLimit, decodes |-> TRUE, decodedSize |-> n]

\* what the call of snappy::Compress can do: return an output, or throw
CompressOutcomes(name, n) ==
    {[threw |-> FALSE, out |-> Compressed(name, n, csize)] : csize \in CompressedSizes(n)}
        \cup {[threw |-> TRUE, out |-> NoFile]}

\* a file just created or cut to length zero by std::ofstream's constructor;
\* a failed write leaves it so.  The codec rejects the truncated stream.
EmptyFile == [id |-> "EmptyFile", size |-> 0, valid |-> FALSE, hasLength |-> FALSE,
              length |-> 0, decodes |-> FALSE, decodedSize |-> 0]

-----------------------------------------------------------------------------
(* generate_test_data.cpp : main and writeTestCase *)

\* a line, or a per-case block, of the generator's output
GLine(msg) ==
    [msg |-> msg, name |-> "", inputSize |-> 0, compressedSize |-> 0,
     ratio |-> "", saved |-> ""]

\* the ratio line of a block: line 23 always prints the quotient
RatioLine(n, d) == Ratio(n, d).value

\* lines 20-25
Block(name, n, d, path) ==
    [msg |-> "case", name |-> name, inputSize |-> n, compressedSize |-> d,
     ratio |-> RatioLine(n, d), saved |-> path]

\* lines 29-30
GStart ==
    /\ gpc = "start"
    /\ gcout' = Append(gcout, GLine("Generating Snappy test data..."))
    /\ caseIdx' = 1
    /\ gpc' = "build"
    /\ UNCHANGED <<input, gcompressed, file, gexit, uncaught, ioFaults, fs, vvars>>

\* the statements of main that build the argument of the next
\* writeTestCase call (and line 102 ahead of the last one)
GBuild ==
    /\ gpc = "build"
    /\ gcout' = IF caseIdx = NumCases
                THEN Append(gcout, GLine("Generating 10MB file (this may take a moment)..."))
                ELSE gcout
    /\ input' = Inputs[caseIdx]
    /\ gpc' = "compress"
    /\ UNCHANGED <<caseIdx, gcompressed, file, gexit, uncaught, ioFaults, fs, vvars>>

\* AfterCompress with the exception swallowed
AfterCompressSwallowed(threw) == "open"

\* where writeTestCase continues after line 13: an exception leaves main
AfterCompress(threw) == IF threw THEN "terminated" ELSE "open"

\* lines 12-13: snappy::Compress(input.data(), input.size(), &compressed)
GCompress ==
    /\ gpc = "compress"
    /\ \E o \in CompressOutcomes(CaseNames[caseIdx], input.size) :
          /\ gcompressed' = o.out
          /\ uncaught' = IF o.threw THEN "snappy::Compress" ELSE "none"
          /\ gpc' = AfterCompress(o.threw)
    /\ UNCHANGED <<caseIdx, input, file, gcout, gexit, ioFaults, fs, vvars>>

\* whether the environment may still fail a file operation
MayFail == ioFaults < MaxIoFaults

\* lines 15-16: std::ofstream file(filename, std::ios::binary)
GOpen ==
    /\ gpc = "open"
    /\ \/ /\ file' = "good"
          /\ fs' = [fs EXCEPT ![Path(CaseNames[caseIdx])] = EmptyFile]
          /\ UNCHANGED ioFaults
       \/ /\ MayFail
          /\ file' = "fail"
          /\ ioFaults' = ioFaults + 1
          /\ UNCHANGED fs
    /\ gpc' = "write"
    /\ UNCHANGED <<caseIdx, input, gcompressed, gcout, gexit, uncaught, vvars>>

\* lines 17-18: file.write(compressed.data(), compressed.size()); file.close()
GWrite ==
    /\ gpc = "write"
    /\ \/ /\ file = "good"
          /\ fs' = [fs EXCEPT ![Path(CaseNames[caseIdx])] = gcompressed]
          /\ UNCHANGED ioFaults
       \/ /\ file = "good" /\ gcompressed.size > 0 /\ MayFail
          /\ ioFaults' = ioFaults + 1
          /\ UNCHANGED fs
       \/ /\ file = "fail"
          /\ UNCHANGED <<fs, ioFaults>>
    /\ file' = "closed"
    /\ gpc' = "print"
    /\ UNCHANGED <<caseIdx, input, gcompressed, gcout, gexit, uncaught, vvars>>

\* lines 20-26: the summary block, then back in main
GPrint ==
    /\ gpc = "print"
    /\ gcout' = Append(gcout, Block(CaseNames[caseIdx], input.size, gcompressed.size,
                                   Path(CaseNames[caseIdx])))
    /\ IF caseIdx < NumCases
       THEN caseIdx' = caseIdx + 1 /\ gpc' = "build"
       ELSE caseIdx' = caseIdx /\ gpc' = "finish"
    /\ UNCHANGED <<input, gcompressed, file, gexit, uncaught, ioFaults, fs, vvars>>

\* lines 111-112
GFinish ==
    /\ gpc = "finish"
    /\ gcout' = Append(gcout, GLine("Test data generation complete!"))
    /\ gexit' = 0
    /\ gpc' = "exited"
    /\ UNCHANGED <<caseIdx, input, gcompressed, file, uncaught, ioFaults, fs, vvars>>

GNext ==
    \/ GStart
    \/ GBuild
    \/ GCompress
    \/ GOpen
    \/ GWrite
    \/ GPrint
    \/ GFinish

-----------------------------------------------------------------------------
(* Validator runs over arbitrary command lines and artifacts *)

\* the argument vector of a run: program name, path, expected-size text
ArgV(n, p, t) ==
    [k \in 0..(n - 1) |->
        IF k = 0 THEN "validate_snappy" ELSE IF k = 1 THEN p
        ELSE IF k = 2 THEN t ELSE "extra"]

ArgTexts ==
    { <<"0">>, <<"1", "3">>, <<"9", "9">>, <<"1", "0", "0">>,
      <<>>, <<"a", "b", "c">>, <<"-">>, <<"-", "1">>, <<"+", "9", "9">>,
      <<" ", "9", "9">>, <<"1", "0", "0", "a">>,
      ToDecimal(SizeLimit - 1), ToDecimal(SizeLimit),
      <<"-">> \o ToDecimal(SizeLimit) }

\* the generator is not part of these runs
GIdle ==
    /\ gpc = "off"
    /\ caseIdx = 0
    /\ input = [size |-> 0, pad |-> 0]
    /\ gcompressed = NoFile
    /\ file = "closed"
    /\ gcout = <<>>
    /\ gexit = 0
    /\ uncaught = "none"
    /\ ioFaults = 0

VInit ==
    /\ vpc = "main"
    /\ argc \in 1..4
    /\ \E p \in {ExtPath, "missing.snappy"}, t \in ArgTexts :
          argv = ArgV(argc, p, t)
    /\ filename = ""
    /\ expectedSize = 0
    /\ compressed = NoFile
    /\ uncompressedLength = 0
    /\ decompressed = 0
    /\ calls = <<>>
    /\ cout = <<>>
    /\ cerr = <<>>
    /\ exitStatus = 0
    /\ \E b \in ExtBlobs \cup {NoFile} : fs = (ExtPath :> b)
    /\ GIdle

Spec == VInit /\ [][VNext]_vars

-----------------------------------------------------------------------------
(* A generator run, then a validator run on one of the reported fixtures *)

\* the test orchestrator: once the generator is over it runs the validator
\* on a fixture the generator reported, with the reported input size (or a
\* size that is one off) as the expected size
Launch ==
    /\ gpc \in {"exited", "terminated"}
    /\ vpc = "idle"
    /\ \E k \in 1..Len(gcout) :
          /\ gcout[k].msg = "case"
          /\ \E n \in {gcout[k].inputSize, gcout[k].inputSize - 1} :
                /\ n >= 0
                /\ argc' = 3
                /\ argv' = ArgV(3, gcout[k].saved, ToDecimal(n))
    /\ vpc' = "main"
    /\ UNCHANGED <<filename, expectedSize, compressed, uncompressedLength,
                   decompressed, calls, cout, cerr, exitStatus, fs, gvars>>

GenInit ==
    /\ gpc = "start"
    /\ caseIdx = 0
    /\ input = [size |-> 0, pad |-> 0]
    /\ gcompressed = NoFile
    /\ file = "closed"
    /\ gcout = <<>>
    /\ gexit = 0
    /\ uncaught = "none"
    /\ ioFaults = 0
    /\ fs = [p \in FixturePaths |-> NoFile]
    /\ vpc = "idle"
    /\ argc = 0
    /\ argv = ArgV(0, "", <<>>)
    /\ filename = ""
    /\ expectedSize = 0
    /\ compressed = NoFile
    /\ uncompressedLength = 0
    /\ decompressed = 0
    /\ calls = <<>>
    /\ cout = <<>>
    /\ cerr = <<>>
    /\ exitStatus = 0

GenNext == GNext \/ Launch \/ VNext

GenSpec == GenInit /\ [][GenNext]_vars

-----------------------------------------------------------------------------
(* Properties of the validator *)

CodecOrder == <<"IsValidCompressedBuffer", "GetUncompressedLength", "Uncompress">>

Called(op) == \E k \in 1..Len(calls) : calls[k] = op

Last(seq) == seq[Len(seq)]

SuccessMarker == Line("ALL CHECKS PASSED", "", 0, 0)

Printed(l) == \E k \in 1..Len(cout) : cout[k] = l

\* C1: the codec operations are called at most once each, in the order
\* validity -> declared length -> decompress, each only after the stage
\* before it passed; a stream that fails the validity check ends the run at
\* stage 2 with exit 1, and neither the length query nor decompression is
\* called.
C1_StageOrdering ==
    /\ calls = SubSeq(CodecOrder, 1, Len(calls))
    /\ Called("GetUncompressedLength") => compressed.valid
    /\ Called("Uncompress") =>
          /\ compressed.valid /\ compressed.hasLength
          /\ compressed.length = expectedSize
    /\ (Called("IsValidCompressedBuffer") /\ ~compressed.valid) =>
          /\ vpc = "exited" /\ exitStatus = 1
          /\ calls = <<"IsValidCompressedBuffer">>
          /\ Last(cerr) = Line("ERROR: Invalid compressed data format", "", 0, 0)

\* C1 witness: a run on a malformed stream, over after the validity check
C1_Witness ==
    /\ vpc = "exited" /\ exitStatus = 1
    /\ compressed.id = "ext" /\ ~compressed.valid
    /\ compressed.hasLength /\ compressed.decodes
    /\ calls = <<"IsValidCompressedBuffer">>

\* expected sizes written as plain decimal numbers on the command line
PlainSizes == {0, 13, 99, 100, SizeLimit - 1}

\* every stage of the pipeline passes for content b and expected size n
AllStagesPass(b, n) ==
    /\ b.valid
    /\ b.hasLength
    /\ b.length = n
    /\ b.decodes
    /\ b.decodedSize = n

\* C2: with two arguments, a readable file and a parseable expected size n,
\* the run exits with 0 exactly when the stream is valid, the length query
\* succeeds, the declared length is n, decompression succeeds and the
\* decompressed size is n; otherwise it exits with 1 and does not print the
\* success marker; on exit 0 the success marker is the last line printed.
C2_ExitContract ==
    \A n \in PlainSizes :
        (/\ argc = 3
         /\ argv[2] = ToDecimal(n)
         /\ ReadFile(argv[1]) # NoFile
         /\ vpc # "main")
        => /\ vpc # "terminated"
           /\ expectedSize = n
           /\ vpc = "exited" =>
                /\ exitStatus \in {0, 1}
                /\ exitStatus = 0 <=> AllStagesPass(ReadFile(argv[1]), n)
                /\ exitStatus = 1 => ~Printed(SuccessMarker)
                /\ exitStatus = 0 => Last(cout) = SuccessMarker

\* C2 witness: a run that passed every stage
C2_Witness ==
    /\ vpc = "exited" /\ exitStatus = 0
    /\ argc = 3 /\ argv[2] = ToDecimal(100)
    /\ compressed.id = "ext" /\ decompressed = 100
    /\ Last(cout) = SuccessMarker

\* C3: a valid stream whose declared length differs from the expected size
\* fails at the declared-length check with exit 1, the diagnostic carries
\* both values, and decompression is never called.
C3_SizeMismatch ==
    (/\ vpc \notin {"idle", "main", "open"}
     /\ compressed.valid /\ compressed.hasLength
     /\ compressed.length # expectedSize)
    => /\ ~Called("Uncompress")
       /\ vpc \in {"validate", "getlength", "checksize", "exited"}
       /\ vpc = "exited" =>
            /\ exitStatus = 1
            /\ calls = <<"IsValidCompressedBuffer", "GetUncompressedLength">>
            /\ Last(cerr) = Line("ERROR: Size mismatch!", "",
                                 expectedSize, compressed.length)

\* C3 witness: declared length 100 against expected size 99
C3_Witness ==
    /\ vpc = "exited" /\ exitStatus = 1
    /\ compressed.valid /\ compressed.hasLength
    /\ compressed.length = 100 /\ expectedSize = 99
    /\ Last(cerr) = Line("ERROR: Size mismatch!", "", 99, 100)

\* texts that are not a non-negative integer: empty, non-numeric, negative,
\* out of range
NotASize ==
    { <<>>, <<"a", "b", "c">>, <<"-">>, <<"-", "1">>,
      ToDecimal(SizeLimit), <<"-">> \o ToDecimal(SizeLimit) }

\* C4: when argv[2] is not parseable as a non-negative integer the run
\* prints a diagnostic and exits with 1; no file is read and no codec
\* operation is called.
C4_ArgumentError ==
    (argc = 3 /\ argv[2] \in NotASize /\ vpc # "main")
    => /\ vpc = "exited" /\ exitStatus = 1
       /\ Len(cerr) > 0
       /\ compressed = NoFile
       /\ calls = <<>>

-----------------------------------------------------------------------------
(* Properties of the generator *)

IsBlock(l) == l.msg = "case"

\* the per-case blocks printed so far
Blocks == SelectSeq(gcout, IsBlock)

Completion == GLine("Test data generation complete!")

CompletionPrinted == \E k \in 1..Len(gcout) : gcout[k] = Completion

\* C5: the validator, run on the fixture written for a case with the
\* case's input size as expected size, passes all four stages and exits
\* with 0, and the decompressed size is the input size.
C5_RoundTrip ==
    \A k \in 1..Len(Blocks) :
        (/\ vpc \in {"exited", "terminated"}
         /\ argv[1] = Blocks[k].saved
         /\ argv[2] = ToDecimal(Blocks[k].inputSize)
         /\ fs[Blocks[k].saved].id = Blocks[k].name)
        => /\ vpc = "exited" /\ exitStatus = 0
           /\ calls = CodecOrder
           /\ decompressed = Blocks[k].inputSize
           /\ Last(cout) = SuccessMarker

\* C5 witness: the hello fixture validated with expected size 13
C5_Witness ==
    /\ vpc = "exited" /\ exitStatus = 0
    /\ filename = Path("hello") /\ compressed.id = "hello"
    /\ expectedSize = 13 /\ decompressed = 13

\* the cases in the order the corpus lists them
ListedOrder ==
    <<"empty", "single_byte", "hello", "repeated", "pattern", "longer_text",
      "ascii", "large", "mixed", "numbers", "large_100kb", "large_1mb",
      "large_10mb">>

\* C6: the cases are processed in the listed order, each once; their names
\* and so their paths are pairwise distinct and a fixture only ever holds
\* the data of its own case; after the last case the completion line is
\* printed and main returns 0.
C6_CorpusOrder ==
    /\ Len(Blocks) <= Len(ListedOrder)
    /\ \A k \in 1..Len(Blocks) :
          /\ Blocks[k].name = ListedOrder[k]
          /\ Blocks[k].saved = Path(ListedOrder[k])
    /\ \A a, b \in 1..NumCases :
          a # b => /\ CaseNames[a] # CaseNames[b]
                   /\ Path(CaseNames[a]) # Path(CaseNames[b])
    /\ \A c \in 1..NumCases :
          fs[Path(CaseNames[c])].id \in {"NoFile", "EmptyFile", CaseNames[c]}
    /\ gpc = "exited" =>
          /\ Len(Blocks) = Len(ListedOrder)
          /\ Last(gcout) = Completion
          /\ gexit = 0

\* C6 witness: a complete run with every fixture in place
C6_Witness ==
    /\ gpc = "exited"
    /\ Len(Blocks) = 13
    /\ \A c \in 1..NumCases : fs[Path(CaseNames[c])].id = CaseNames[c]

\* C7: the input of large_1mb is 1,048,576 bytes cut from longer content:
\* no byte of it is padding added by the resize.
C7_TruncatedNotPadded ==
    (gpc \in {"compress", "open", "write", "print"} /\ CaseNames[caseIdx] = "large_1mb")
    => /\ input.size = 1048576
       /\ input.pad = 0

\* C8: a block whose compressed size is 0 leaves the ratio unreported.
C8_NoZeroDivisor ==
    \A k \in 1..Len(Blocks) :
        Blocks[k].compressedSize = 0 => Blocks[k].ratio = ""

\* C9: a case is reported as saved only if its fixture was written, and the
\* completion line is never printed while a case has no fixture.
C9_WriteFailureFatal ==
    /\ \A k \in 1..Len(Blocks) : fs[Blocks[k].saved].id = Blocks[k].name
    /\ CompletionPrinted =>
          \A c \in 1..NumCases : fs[Path(CaseNames[c])].id = CaseNames[c]

\* C10: when snappy::Compress fails for a case the run is over: no fixture
\* exists for that case or any later one, no block is printed for them and
\* the completion line is not printed.
C10_CompressFailureAborts ==
    uncaught # "none" =>
        /\ gpc = "terminated"
        /\ Len(Blocks) = caseIdx - 1
        /\ \A c \in caseIdx..NumCases : fs[Path(CaseNames[c])] = NoFile
        /\ ~CompletionPrinted

\* C10 witness: the compression of the fourth case failed
C10_Witness ==
    /\ uncaught = "snappy::Compress"
    /\ gpc = "terminated"
    /\ caseIdx = 4
    /\ fs[Path("hello")].id = "hello"

====
